---- MODULE Spec2Model ----
(***************************************************************************)
(* Model of boichee/go-envconfig: binding of a tagged struct from the      *)
(* process environment (Process, and the older LoadConfig) and from the    *)
(* command line (ProcessFlags).                                            *)
(*                                                                         *)
(* Text (environment values, tag values, field names, flag names) is a     *)
(* sequence of one-character strings, so that parsing, lower-casing and    *)
(* repetition are computed character by character.                         *)
(***************************************************************************)
EXTENDS Integers, Sequences, FiniteSets, TLC

\* ------------------------------------------------------------------ bounds

\* longest environment text of a one-field record
MaxLen == 2
\* most fields of a record
MaxFields == 2
\* most command-line arguments
MaxArgs == 1

\* characters environment texts are built from
Chars == {"0", "1", "-", ".", "x"}

\* all texts over S of at most n characters
TextsUpTo(S, n) == UNION {[1..k -> S] : k \in 0..n}

\* ------------------------------------------------------------------ text

Digits == {"0", "1", "2", "3", "4", "5", "6", "7", "8", "9"}

DigitVal(c) ==
  CASE c = "0" -> 0 [] c = "1" -> 1 [] c = "2" -> 2 [] c = "3" -> 3
    [] c = "4" -> 4 [] c = "5" -> 5 [] c = "6" -> 6 [] c = "7" -> 7
    [] c = "8" -> 8 [] c = "9" -> 9

AllDigits(s) == \A i \in 1..Len(s) : s[i] \in Digits

RECURSIVE DigitsVal(_)
\* value of a run of decimal digits
DigitsVal(s) ==
  IF s = <<>> THEN 0
  ELSE 10 * DigitsVal(SubSeq(s, 1, Len(s) - 1)) + DigitVal(s[Len(s)])

RECURSIVE Pow10(_)
Pow10(k) == IF k = 0 THEN 1 ELSE 10 * Pow10(k - 1)

\* two's-complement wrap of x to a signed integer of w bits
WrapSigned(x, w) ==
  LET m == 2 ^ w
      r == x % m
  IN IF r >= m \div 2 THEN r - m ELSE r

\* wrap of x to an unsigned integer of w bits
WrapUnsigned(x, w) == x % (2 ^ w)

\* Atoi reading the empty text as 0
AtoiEmptyZero(raw) ==
  LET signed == raw # <<>> /\ raw[1] \in {"-", "+"}
      body == IF signed THEN Tail(raw) ELSE raw
  IN IF raw = <<>> THEN [ok |-> TRUE, val |-> 0]
     ELSE IF body = <<>> \/ ~AllDigits(body) THEN [ok |-> FALSE, val |-> 0]
     ELSE [ok |-> TRUE,
           val |-> IF signed /\ raw[1] = "-" THEN 0 - DigitsVal(body)
                   ELSE DigitsVal(body)]

\* strconv.Atoi: optional sign, then one or more decimal digits
Atoi(raw) ==
  LET signed == raw # <<>> /\ raw[1] \in {"-", "+"}
      body == IF signed THEN Tail(raw) ELSE raw
      ok == body # <<>> /\ AllDigits(body)
  IN IF ~ok THEN [ok |-> FALSE, val |-> 0]
     ELSE [ok |-> TRUE,
           val |-> IF signed /\ raw[1] = "-" THEN 0 - DigitsVal(body)
                   ELSE DigitsVal(body)]

\* strconv.ParseUint(raw, 10, 64): one or more decimal digits, no sign
ParseUint(raw) ==
  IF raw # <<>> /\ AllDigits(raw)
  THEN [ok |-> TRUE, val |-> DigitsVal(raw)]
  ELSE [ok |-> FALSE, val |-> 0]

RECURSIVE NormFloat(_, _)
\* a decimal n / 10^k in lowest form; zero has no sign
NormFloat(n, k) ==
  IF n = 0 THEN <<0, 0>>
  ELSE IF k > 0 /\ n % 10 = 0 THEN NormFloat(n \div 10, k - 1)
  ELSE <<n, k>>

\* position of the first "." of s, or 0
DotAt(s) ==
  IF \E i \in 1..Len(s) : s[i] = "."
  THEN CHOOSE i \in 1..Len(s) : s[i] = "." /\ \A j \in 1..(i - 1) : s[j] # "."
  ELSE 0

\* strconv.ParseFloat(raw, 64) on plain decimals: optional sign, digits with
\* at most one ".", at least one digit. The value n / 10^k is kept as <<n, k>>.
ParseFloat(raw) ==
  LET signed == raw # <<>> /\ raw[1] \in {"-", "+"}
      body == IF signed THEN Tail(raw) ELSE raw
      d == DotAt(body)
      int == IF d = 0 THEN body ELSE SubSeq(body, 1, d - 1)
      frac == IF d = 0 THEN <<>> ELSE SubSeq(body, d + 1, Len(body))
      ok == /\ AllDigits(int)
            /\ AllDigits(frac)
            /\ Len(int) + Len(frac) > 0
      mag == DigitsVal(int \o frac)
  IN IF ~ok THEN [ok |-> FALSE, val |-> <<0, 0>>]
     ELSE [ok |-> TRUE,
           val |-> NormFloat(IF signed /\ raw[1] = "-" THEN 0 - mag ELSE mag,
                             Len(frac))]

\* ------------------------------------------------------------ struct types

\* reflect.Kind of a field, by group of the coercion switch
SignedKinds == {"int", "int8", "int16", "int32", "int64"}
UnsignedKinds == {"uint", "uint8", "uint16", "uint32", "uint64"}
FloatKinds == {"float32", "float64"}

\* bits of an integer kind; int and uint are 64 bits wide on the modelled build
Width(kind) ==
  CASE kind \in {"int8", "uint8"} -> 8
    [] kind \in {"int16", "uint16"} -> 16
    [] kind \in {"int32", "uint32"} -> 32
    [] OTHER -> 64

\* a struct tag that is absent, and one that is present with value v
NoTag == [ok |-> FALSE, v |-> <<>>]
Tag(v) == [ok |-> TRUE, v |-> v]
\* reflect.StructTag.Get: the value, or "" when the tag is absent
TagGet(tag) == IF tag.ok THEN tag.v ELSE <<>>

\* field names and the environment keys used for them, by position
FieldNames == << <<"F", "o", "o">>, <<"B", "a", "r">>, <<"B", "a", "z">>,
                 <<"Q", "u", "x">> >>
EnvKeys == << <<"F", "O", "O">>, <<"B", "A", "R">>, <<"B", "A", "Z">>,
              <<"Q", "U", "X">> >>

\* the zero value of a kind; a "ptr" field points to a customValue{v string}
Zero(kind) ==
  CASE kind \in SignedKinds \cup UnsignedKinds -> 0
    [] kind \in FloatKinds -> <<0, 0>>
    [] kind = "string" -> <<>>
    [] kind = "bool" -> FALSE
    [] OTHER -> [v |-> <<>>]

\* a non-zero value of the kind, for a record that was filled in before the call
Preset(kind) ==
  CASE kind \in SignedKinds \cup UnsignedKinds -> 7
    [] kind \in FloatKinds -> <<7, 0>>
    [] kind = "string" -> <<"p">>
    [] kind = "bool" -> TRUE
    [] OTHER -> [v |-> <<"p">>]

\* ------------------------------------------------------------------ errors

NoError == [fmt |-> "", args |-> <<>>]
\* errors.New(fmt.Sprintf(fmt, args...)), kept as format and arguments
Errorf(f, a) == [fmt |-> f, args |-> a]

MsgNotPtr == "spec param must be a pointer to struct"
MsgNotPtrLegacy == "'cfg' parameter must be a pointer to a concrete struct"
MsgNoEnvTag == "'env' tag not found for field %s"
MsgRequired == "Env variable %s is required by field %s\n"
MsgInt == "Unable to convert value found in environment variable %s ('%s') to int. Aborting."
MsgUint == "Unable to convert value found in environment variable %s ('%s') to uint. Aborting."
MsgFloat == "Unable to convert value found in environment variable %s ('%s') to float. Aborting."
MsgBool == "Unable to convert value found in environment variable %s ('%s') to bool (should be: 1 or 0). Aborting."
MsgUnsupported == "The type '%s' of the field '%s' is not supported"

\* ----------------------------------------------------------------- state

VARIABLES
  typ,       \* the struct type of the target: a sequence of field descriptors
  env,       \* the process environment: key -> [set, v]
  args,      \* the command line: a sequence of [name, val]
  rec,       \* the target record: the value of each field
  pre,       \* the record as it was when the last call was entered
  called,    \* the last binding call: [fn, ptr], fn = "" before any call
  ret,       \* the error the last call returned (NoError for nil)
  lookups,   \* the keys the last call passed to os.Getenv, in order
  stderr,    \* the lines written to os.Stderr
  registry,  \* flag.CommandLine: the registered flags, in order
  parsed,    \* how many times flag.Parse has run
  main,      \* what the program binds from: "env" or "flags"
  status     \* "start", "returned", "panicked" or "exited"

vars == <<typ, env, args, rec, pre, called, ret, lookups, stderr, registry,
          parsed, main, status>>

\* ---------------------------------------------------------- handleError

\* handleError: the message goes to stderr when showError is set
handleError(out, e, showError) == IF showError THEN Append(out, e) ELSE out

\* ---------------------------------------------------------------- Process

\* NotAPointer with the test left out
NotAPointerUnchecked(ptr) == FALSE

\* reflect.ValueOf(spec).Kind() != reflect.Ptr
NotAPointer(ptr) == ~ptr

\* os.Getenv: the value of the variable, "" when it is not set
Getenv(e, key) == IF e[key].set THEN e[key].v ELSE <<>>

\* RawValue without the default: the environment text is always used
RawValueNoDefault(typField, got) == got

\* the text handed to the coercion: the default replaces an empty value
RawValue(typField, got) ==
  IF got = <<>> /\ TagGet(typField.default) # <<>>
  THEN TagGet(typField.default)
  ELSE got

\* RequiredMissing with the test of the value inverted
RequiredMissingInverted(typField, got) ==
  got # <<>> /\ TagGet(typField.default) = <<>> /\ typField.required.ok

\* an empty value, no default, and a required tag
RequiredMissing(typField, got) ==
  got = <<>> /\ TagGet(typField.default) = <<>> /\ typField.required.ok

\* reflect.Value.SetInt / SetUint: the value is cut to the field's width
SetInt(kind, conv) ==
  IF Width(kind) < 64 THEN WrapSigned(conv, Width(kind)) ELSE conv
SetUint(kind, conv) ==
  IF Width(kind) < 64 THEN WrapUnsigned(conv, Width(kind)) ELSE conv

\* outcome of the coercion of one field: the error format ("" for none) and
\* the value the field holds afterwards
Bound(val) == [fmt |-> "", val |-> val]
CoerceFail(msg, old) == [fmt |-> msg, val |-> old]

\* StrictBool taking every non-empty text for true
StrictBoolNonEmpty(raw, old) == Bound(raw # <<>>)

\* case reflect.Bool of Process: exactly "0" and "1" are accepted
StrictBool(raw, old) ==
  CASE raw = <<"0">> -> Bound(FALSE)
    [] raw = <<"1">> -> Bound(TRUE)
    [] OTHER -> CoerceFail(MsgBool, old)

\* the switch on fld.Type().Kind() of Process; a kind with no case is left alone
Coerce(kind, raw, old) ==
  CASE kind \in SignedKinds ->
         LET c == Atoi(raw)
         IN IF c.ok THEN Bound(SetInt(kind, c.val)) ELSE CoerceFail(MsgInt, old)
    [] kind \in UnsignedKinds ->
         LET c == ParseUint(raw)
         IN IF c.ok THEN Bound(SetUint(kind, c.val)) ELSE CoerceFail(MsgUint, old)
    [] kind = "string" -> Bound(raw)
    [] kind \in FloatKinds ->
         LET c == ParseFloat(raw)
         IN IF c.ok THEN Bound(c.val) ELSE CoerceFail(MsgFloat, old)
    [] kind = "bool" -> StrictBool(raw, old)
    [] OTHER -> Bound(old)

\* one pass of the loop body of Process over field typField holding old:
\* the error (NoError to go on), the field's value, and the key looked up
ProcessField(typField, e, old) ==
  IF ~typField.env.ok
  THEN [err |-> Errorf(MsgNoEnvTag, <<typField.Name>>), val |-> old,
        looked |-> <<>>]
  ELSE LET envTag == typField.env.v
           got == Getenv(e, envTag)
       IN IF RequiredMissing(typField, got)
          THEN [err |-> Errorf(MsgRequired, <<envTag, typField.Name>>),
                val |-> old, looked |-> <<envTag>>]
          ELSE LET raw == RawValue(typField, got)
                   c == Coerce(typField.kind, raw, old)
               IN [err |-> IF c.fmt = "" THEN NoError
                           ELSE Errorf(c.fmt, <<envTag, raw>>),
                   val |-> c.val, looked |-> <<envTag>>]

RECURSIVE ProcessFieldsGoOn(_, _, _, _, _, _)
\* ProcessFields going on to the next field after an error, and returning
\* the first error at the end
ProcessFieldsGoOn(t, e, r, i, looks, first) ==
  IF i > Len(t) THEN [rec |-> r, err |-> first, lookups |-> looks]
  ELSE LET f == ProcessField(t[i], e, r[i])
       IN ProcessFieldsGoOn(t, e, [r EXCEPT ![i] = f.val], i + 1,
                            looks \o f.looked,
                            IF first.fmt = "" THEN f.err ELSE first)

ProcessFieldsNoReturn(t, e, r, i, looks) ==
  ProcessFieldsGoOn(t, e, r, i, looks, NoError)

RECURSIVE ProcessFields(_, _, _, _, _)
\* the loop of Process from field i on: it returns at the first error
ProcessFields(t, e, r, i, looks) ==
  IF i > Len(t) THEN [rec |-> r, err |-> NoError, lookups |-> looks]
  ELSE LET f == ProcessField(t[i], e, r[i])
           r2 == [r EXCEPT ![i] = f.val]
           looks2 == looks \o f.looked
       IN IF f.err.fmt # ""
          THEN [rec |-> r2, err |-> f.err, lookups |-> looks2]
          ELSE ProcessFields(t, e, r2, i + 1, looks2)

\* Process(spec, showErrors); ptr: whether spec is a pointer to the record
Process(ptr, showErrors) ==
  /\ main = "env"
  /\ status = "start"
  /\ called' = [fn |-> "Process", ptr |-> ptr]
  /\ pre' = rec
  /\ status' = "returned"
  /\ IF NotAPointer(ptr)
     THEN /\ ret' = Errorf(MsgNotPtr, <<>>)
          /\ stderr' = handleError(stderr, ret', showErrors)
          /\ lookups' = <<>>
          /\ UNCHANGED rec
     ELSE LET out == ProcessFields(typ, env, rec, 1, <<>>)
          IN /\ rec' = out.rec
             /\ ret' = out.err
             /\ lookups' = out.lookups
             /\ stderr' = IF out.err.fmt = "" THEN stderr
                          ELSE handleError(stderr, out.err, showErrors)
  /\ UNCHANGED <<typ, env, args, registry, parsed, main>>

\* ------------------------------------------------------------- LoadConfig

\* LooseBool taking only "1" for true
LooseBoolOnlyOne(raw) == Bound(raw = <<"1">>)

\* case reflect.Bool of the older LoadConfig: fld.SetBool(raw != "")
LooseBool(raw) == Bound(raw # <<>>)

\* the switch of the older LoadConfig: no case for the unsigned kinds
CoerceLegacy(kind, raw, old) ==
  CASE kind \in SignedKinds ->
         LET c == Atoi(raw)
         IN IF c.ok THEN Bound(SetInt(kind, c.val)) ELSE CoerceFail(MsgInt, old)
    [] kind = "string" -> Bound(raw)
    [] kind \in FloatKinds ->
         LET c == ParseFloat(raw)
         IN IF c.ok THEN Bound(c.val) ELSE CoerceFail(MsgFloat, old)
    [] kind = "bool" -> LooseBool(raw)
    [] OTHER -> Bound(old)

\* the loop body of the older LoadConfig
LoadConfigField(typField, e, old) ==
  IF ~typField.env.ok
  THEN [err |-> Errorf(MsgNoEnvTag, <<typField.Name>>), val |-> old,
        looked |-> <<>>]
  ELSE LET envTag == typField.env.v
           got == Getenv(e, envTag)
       IN IF RequiredMissing(typField, got)
          THEN [err |-> Errorf(MsgRequired, <<envTag, typField.Name>>),
                val |-> old, looked |-> <<envTag>>]
          ELSE LET raw == RawValue(typField, got)
                   c == CoerceLegacy(typField.kind, raw, old)
               IN [err |-> IF c.fmt = "" THEN NoError
                           ELSE Errorf(c.fmt, <<envTag, raw>>),
                   val |-> c.val, looked |-> <<envTag>>]

RECURSIVE LoadConfigFields(_, _, _, _, _)
LoadConfigFields(t, e, r, i, looks) ==
  IF i > Len(t) THEN [rec |-> r, err |-> NoError, lookups |-> looks]
  ELSE LET f == LoadConfigField(t[i], e, r[i])
           r2 == [r EXCEPT ![i] = f.val]
           looks2 == looks \o f.looked
       IN IF f.err.fmt # ""
          THEN [rec |-> r2, err |-> f.err, lookups |-> looks2]
          ELSE LoadConfigFields(t, e, r2, i + 1, looks2)

\* LoadConfig(cfg, showErrors) as it was before Process replaced its body
LoadConfig(ptr, showErrors) ==
  /\ main = "env"
  /\ status = "start"
  /\ called' = [fn |-> "LoadConfig", ptr |-> ptr]
  /\ pre' = rec
  /\ status' = "returned"
  /\ IF NotAPointer(ptr)
     THEN /\ ret' = Errorf(MsgNotPtrLegacy, <<>>)
          /\ stderr' = handleError(stderr, ret', showErrors)
          /\ lookups' = <<>>
          /\ UNCHANGED rec
     ELSE LET out == LoadConfigFields(typ, env, rec, 1, <<>>)
          IN /\ rec' = out.rec
             /\ ret' = out.err
             /\ lookups' = out.lookups
             /\ stderr' = IF out.err.fmt = "" THEN stderr
                          ELSE handleError(stderr, out.err, showErrors)
  /\ UNCHANGED <<typ, env, args, registry, parsed, main>>

\* ------------------------------------------------------------ ProcessFlags

UpperCase == <<"A", "B", "C", "D", "E", "F", "G", "H", "I", "J", "K", "L", "M",
               "N", "O", "P", "Q", "R", "S", "T", "U", "V", "W", "X", "Y", "Z">>
LowerCase == <<"a", "b", "c", "d", "e", "f", "g", "h", "i", "j", "k", "l", "m",
               "n", "o", "p", "q", "r", "s", "t", "u", "v", "w", "x", "y", "z">>

ToLowerChar(c) ==
  IF \E i \in 1..26 : UpperCase[i] = c
  THEN LowerCase[CHOOSE i \in 1..26 : UpperCase[i] = c]
  ELSE c

\* strings.ToLower
ToLower(s) == [i \in 1..Len(s) |-> ToLowerChar(s[i])]

\* FlagName without the lower-casing
FlagNameAsDeclared(typField) ==
  IF typField.flag.ok THEN typField.flag.v ELSE typField.Name

\* the flag's name: the flag tag when there is one, else the field name lower-cased
FlagName(typField) ==
  IF typField.flag.ok THEN typField.flag.v ELSE ToLower(typField.Name)

\* the flag.XxxVar call the switch of ProcessFlags picks for a kind, "" for none
FlagRule(kind) ==
  CASE kind = "int64" -> "Int64Var"
    [] kind = "uint64" -> "Uint64Var"
    [] kind \in {"float32", "float64"} -> "Float64Var"
    [] kind = "string" -> "StringVar"
    [] kind = "bool" -> "BoolVar"
    [] OTHER -> ""

\* FlagDefault without the default tag: the zero value of the flag's type
FlagDefaultZero(rule, defaultVal) ==
  CASE rule \in {"Int64Var", "Uint64Var"} -> 0
    [] rule = "Float64Var" -> <<0, 0>>
    [] rule = "StringVar" -> <<>>
    [] rule = "BoolVar" -> FALSE

\* the default the flag is registered with: the parsed default tag, the zero
\* value when it does not parse, and always false for a bool
FlagDefault(rule, defaultVal) ==
  CASE rule = "Int64Var" -> Atoi(defaultVal).val
    [] rule = "Uint64Var" -> ParseUint(defaultVal).val
    [] rule = "Float64Var" -> ParseFloat(defaultVal).val
    [] rule = "StringVar" -> defaultVal
    [] rule = "BoolVar" -> FALSE

\* bytes of a field of the kind on the modelled 64-bit build; a string is a
\* pointer and a length
Size(kind) ==
  CASE kind \in {"int8", "uint8", "bool"} -> 1
    [] kind \in {"int16", "uint16"} -> 2
    [] kind \in {"int32", "uint32", "float32"} -> 4
    [] kind = "string" -> 16
    [] OTHER -> 8

Align(kind) == IF Size(kind) > 8 THEN 8 ELSE Size(kind)

RECURSIVE Offset(_, _)
\* the offset of field i in the struct: each field at the next multiple of
\* its alignment
Offset(t, i) ==
  IF i = 1 THEN 0
  ELSE LET end == Offset(t, i - 1) + Size(t[i - 1].kind)
           al == Align(t[i].kind)
       IN ((end + al - 1) \div al) * al

\* the fields after field i that begin within 8 bytes of its offset
Overlapped(t, i) ==
  {j \in (i + 1)..Len(t) : Offset(t, j) < Offset(t, i) + 8}

\* A float32 field is registered through a *float64: every store of the flag
\* writes 8 bytes at the address of a 4-byte field. ub.own says whether the
\* half of the float64 that lands in the field reads as zero or as some other
\* float32, ub.spill the same of the other half, which lands in the fields
\* that follow within those 8 bytes.
UBChoices == [own : {"zero", "bits"}, spill : {"zero", "bits"}]

\* the record after a store of val through the flag's pointer to field i
Store(t, r, i, val, ub) ==
  IF t[i].kind # "float32" THEN [r EXCEPT ![i] = val]
  ELSE [j \in 1..Len(t) |->
          IF j = i
          THEN IF val = <<0, 0>> \/ ub.own = "zero"
               THEN Zero("float32") ELSE Preset("float32")
          ELSE IF j \in Overlapped(t, i)
          THEN IF val = <<0, 0>> \/ ub.spill = "zero"
               THEN Zero(t[j].kind) ELSE Preset(t[j].kind)
          ELSE r[j]]

RegisteredNames(reg) == {reg[j].name : j \in 1..Len(reg)}

RECURSIVE RegisterFieldsUndone(_, _, _, _, _)
\* RegisterFields emptying the flag set when a field's kind has no case
RegisterFieldsUndone(t, r, reg, i, ub) ==
  IF i > Len(t) THEN [rec |-> r, reg |-> reg, err |-> NoError, panic |-> FALSE]
  ELSE LET name == FlagName(t[i])
           rule == FlagRule(t[i].kind)
       IN IF rule = ""
          THEN [rec |-> r, reg |-> <<>>, panic |-> FALSE,
                err |-> Errorf(MsgUnsupported, <<t[i].kind, t[i].Name>>)]
          ELSE LET def == FlagDefault(rule, TagGet(t[i].default))
                   r2 == Store(t, r, i, def, ub)
               IN IF name \in RegisteredNames(reg)
                  THEN [rec |-> r2, reg |-> reg, err |-> NoError,
                        panic |-> TRUE]
                  ELSE RegisterFieldsUndone(t, r2,
                         Append(reg, [name |-> name, field |-> i, rule |-> rule,
                                      def |-> def, usage |-> TagGet(t[i].usage)]),
                         i + 1, ub)

RECURSIVE RegisterFieldsTwice(_, _, _, _, _)
\* RegisterFields adding a flag whose name is already in the flag set
RegisterFieldsTwice(t, r, reg, i, ub) ==
  IF i > Len(t) THEN [rec |-> r, reg |-> reg, err |-> NoError, panic |-> FALSE]
  ELSE LET name == FlagName(t[i])
           rule == FlagRule(t[i].kind)
       IN IF rule = ""
          THEN [rec |-> r, reg |-> reg, panic |-> FALSE,
                err |-> Errorf(MsgUnsupported, <<t[i].kind, t[i].Name>>)]
          ELSE LET def == FlagDefault(rule, TagGet(t[i].default))
               IN RegisterFieldsTwice(t, Store(t, r, i, def, ub),
                    Append(reg, [name |-> name, field |-> i, rule |-> rule,
                                 def |-> def, usage |-> TagGet(t[i].usage)]),
                    i + 1, ub)

RECURSIVE RegisterFields(_, _, _, _, _)
\* the loop of ProcessFlags from field i on. flag.XxxVar stores the default
\* through the pointer and then panics when the name is already registered.
RegisterFields(t, r, reg, i, ub) ==
  IF i > Len(t) THEN [rec |-> r, reg |-> reg, err |-> NoError, panic |-> FALSE]
  ELSE LET name == FlagName(t[i])
           rule == FlagRule(t[i].kind)
       IN IF rule = ""
          THEN [rec |-> r, reg |-> reg, panic |-> FALSE,
                err |-> Errorf(MsgUnsupported, <<t[i].kind, t[i].Name>>)]
          ELSE LET def == FlagDefault(rule, TagGet(t[i].default))
                   r2 == Store(t, r, i, def, ub)
               IN IF name \in RegisteredNames(reg)
                  THEN [rec |-> r2, reg |-> reg, err |-> NoError,
                        panic |-> TRUE]
                  ELSE RegisterFields(t, r2,
                         Append(reg, [name |-> name, field |-> i, rule |-> rule,
                                      def |-> def, usage |-> TagGet(t[i].usage)]),
                         i + 1, ub)

IsOctal(s) == \A i \in 1..Len(s) : s[i] \in {"0", "1", "2", "3", "4", "5", "6", "7"}

RECURSIVE BaseVal(_, _)
BaseVal(s, b) ==
  IF s = <<>> THEN 0
  ELSE b * BaseVal(SubSeq(s, 1, Len(s) - 1), b) + DigitVal(s[Len(s)])

\* strconv.ParseUint(s, 0, 64) on digits and "x": the base comes from the prefix
ParseUint0(s) ==
  IF Len(s) >= 2 /\ s[1] = "0" /\ s[2] = "x"
  THEN LET h == SubSeq(s, 3, Len(s))
       IN IF h # <<>> /\ AllDigits(h)
          THEN [ok |-> TRUE, val |-> BaseVal(h, 16)]
          ELSE [ok |-> FALSE, val |-> 0]
  ELSE IF Len(s) >= 2 /\ s[1] = "0"
  THEN IF IsOctal(s)
       THEN [ok |-> TRUE, val |-> BaseVal(s, 8)]
       ELSE [ok |-> FALSE, val |-> 0]
  ELSE ParseUint(s)

\* strconv.ParseInt(s, 0, 64)
ParseInt0(s) ==
  LET signed == s # <<>> /\ s[1] \in {"-", "+"}
      u == ParseUint0(IF signed THEN Tail(s) ELSE s)
  IN IF ~u.ok THEN [ok |-> FALSE, val |-> 0]
     ELSE [ok |-> TRUE,
           val |-> IF signed /\ s[1] = "-" THEN 0 - u.val ELSE u.val]

\* strconv.ParseBool
ParseBool(s) ==
  IF s \in {<<"1">>, <<"t">>, <<"T">>, <<"t", "r", "u", "e">>,
            <<"T", "R", "U", "E">>, <<"T", "r", "u", "e">>}
  THEN [ok |-> TRUE, val |-> TRUE]
  ELSE IF s \in {<<"0">>, <<"f">>, <<"F">>, <<"f", "a", "l", "s", "e">>,
                 <<"F", "A", "L", "S", "E">>, <<"F", "a", "l", "s", "e">>}
  THEN [ok |-> TRUE, val |-> FALSE]
  ELSE [ok |-> FALSE, val |-> FALSE]

\* flag.Value.Set of a registered flag
FlagSet(rule, s) ==
  CASE rule = "Int64Var" -> ParseInt0(s)
    [] rule = "Uint64Var" -> ParseUint0(s)
    [] rule = "Float64Var" -> ParseFloat(s)
    [] rule = "StringVar" -> [ok |-> TRUE, val |-> s]
    [] rule = "BoolVar" -> ParseBool(s)

\* an argument "-name" with no value, and "-name=val"
NoVal == [has |-> FALSE, v |-> <<>>]
Val(v) == [has |-> TRUE, v |-> v]

RECURSIVE ParseArgs(_, _, _, _, _, _)
\* flag.Parse over the arguments from j on; the flag set exits the process
\* on an undefined flag, a missing value and a value that does not parse
ParseArgs(t, r, reg, a, j, ub) ==
  IF j > Len(a) THEN [rec |-> r, exit |-> FALSE]
  ELSE IF a[j].name \notin RegisteredNames(reg) THEN [rec |-> r, exit |-> TRUE]
  ELSE LET f == reg[CHOOSE k \in 1..Len(reg) : reg[k].name = a[j].name]
           text == IF a[j].val.has THEN a[j].val.v
                   ELSE <<"t", "r", "u", "e">>
           c == FlagSet(f.rule, text)
       IN IF (~a[j].val.has /\ f.rule # "BoolVar") \/ ~c.ok
          THEN [rec |-> r, exit |-> TRUE]
          ELSE ParseArgs(t, Store(t, r, f.field, c.val, ub), reg, a, j + 1, ub)

\* ProcessFlags(spec); ptr: whether spec is a pointer to the record
ProcessFlags(ptr, ub) ==
  /\ main = "flags"
  /\ status \in {"start", "returned"}
  /\ called' = [fn |-> "ProcessFlags", ptr |-> ptr]
  /\ pre' = rec
  /\ lookups' = <<>>
  /\ IF NotAPointer(ptr)
     THEN /\ ret' = Errorf(MsgNotPtr, <<>>)
          /\ status' = "returned"
          /\ UNCHANGED <<rec, registry, parsed>>
     ELSE LET out == RegisterFields(typ, rec, registry, 1, ub)
              p == ParseArgs(typ, out.rec, out.reg, args, 1, ub)
          IN /\ registry' = out.reg
             /\ ret' = out.err
             /\ IF out.panic \/ out.err.fmt # ""
                THEN /\ rec' = out.rec
                     /\ status' = IF out.panic THEN "panicked" ELSE "returned"
                     /\ UNCHANGED parsed
                ELSE /\ rec' = p.rec
                     /\ parsed' = parsed + 1
                     /\ status' = IF p.exit THEN "exited" ELSE "returned"
  /\ UNCHANGED <<typ, env, args, stderr, main>>

\* ------------------------------------------------------------------ inputs

\* kinds of the fields bound from the environment
EnvKinds == {"int", "int8", "uint64", "float64", "string", "bool", "ptr"}
\* kinds of the fields of the longer records
RecordKinds == {"int", "string", "ptr"}
\* non-empty texts of a default tag
DefaultTexts == {<<"1">>, <<"0">>, <<"x">>}
\* environment texts of the longer records
RecordTexts == {<<"1">>, <<"x">>}

Unset == [set |-> FALSE, v |-> <<>>]
Set(v) == [set |-> TRUE, v |-> v]

\* field i of a struct bound from the environment
EnvField(i, kind, hasEnv, default, required) ==
  [Name |-> FieldNames[i], kind |-> kind,
   env |-> IF hasEnv THEN Tag(EnvKeys[i]) ELSE NoTag,
   default |-> default, required |-> required,
   flag |-> NoTag, usage |-> NoTag]

\* a field with no env tag, and the tagged fields with every default and required
OneFieldInputs ==
  {EnvField(1, k, FALSE, NoTag, NoTag) : k \in EnvKinds}
  \cup {EnvField(1, k, TRUE, d, r) :
          k \in EnvKinds, d \in {NoTag} \cup {Tag(t) : t \in DefaultTexts},
          r \in {NoTag, Tag(<<"t">>)}}

\* the tags of a field of a longer record: no env tag, or an env tag with
\* or without required
RecordShapes ==
  {[kind |-> k, hasEnv |-> FALSE, required |-> NoTag] : k \in RecordKinds}
  \cup {[kind |-> k, hasEnv |-> TRUE, required |-> r] :
          k \in RecordKinds, r \in {NoTag, Tag(<<"t">>)}}

\* the struct types of exactly n fields
RecordTypes(n) ==
  {[i \in 1..n |-> EnvField(i, sh[i].kind, sh[i].hasEnv, NoTag, sh[i].required)] :
     sh \in [1..n -> RecordShapes]}

KeysOf(t) == {EnvKeys[i] : i \in 1..Len(t)}

\* a one-field struct and every environment text up to MaxLen
InitOneField ==
  /\ typ \in {<<f>> : f \in OneFieldInputs}
  /\ env \in [KeysOf(typ) -> {Unset} \cup {Set(t) : t \in TextsUpTo(Chars, MaxLen)}]
  /\ rec = [i \in 1..Len(typ) |-> Preset(typ[i].kind)]

\* a struct of up to MaxFields fields, filled in before the call
InitRecord ==
  /\ typ \in UNION {RecordTypes(n) : n \in 1..MaxFields}
  /\ env \in [KeysOf(typ) -> {Unset} \cup {Set(t) : t \in RecordTexts}]
  /\ rec = [i \in 1..Len(typ) |-> Preset(typ[i].kind)]

\* kinds of the fields bound from the command line
FlagKinds == {"int64", "uint64", "float64", "float32", "string", "bool",
              "int8", "ptr"}
\* kinds of the fields of the longer records bound from the command line
FlagRecordKinds == {"bool", "float32", "int8"}
\* the texts of the values on the command line
ArgTexts == {<<"1">>, <<"x">>}
\* the name given by a flag tag
FlagF == <<"f">>

\* field i of a struct bound from the command line
FlagField(i, kind, default, flag, required) ==
  [Name |-> FieldNames[i], kind |-> kind, env |-> NoTag,
   default |-> default, required |-> required,
   flag |-> flag, usage |-> Tag(<<"u">>)]

FlagOneFieldInputs ==
  {FlagField(1, k, d, f, r) :
     k \in FlagKinds, d \in {NoTag} \cup {Tag(t) : t \in DefaultTexts},
     f \in {NoTag, Tag(FlagF)}, r \in {NoTag, Tag(<<"t">>)}}

FlagRecordShapes == [kind : FlagRecordKinds, flag : {NoTag, Tag(FlagF)}]

FlagRecordTypes(n) ==
  {[i \in 1..n |-> FlagField(i, sh[i].kind, NoTag, sh[i].flag, NoTag)] :
     sh \in [1..n -> FlagRecordShapes]}

\* the command lines of at most MaxArgs arguments
ArgLists(t) ==
  TextsUpTo([name : {ToLower(t[i].Name) : i \in 1..Len(t)} \cup {FlagF},
             val : {NoVal} \cup {Val(v) : v \in ArgTexts}], MaxArgs)

InitFlagOneField ==
  /\ typ \in {<<f>> : f \in FlagOneFieldInputs}
  /\ rec \in {[i \in 1..Len(typ) |-> Zero(typ[i].kind)],
              [i \in 1..Len(typ) |-> Preset(typ[i].kind)]}

InitFlagRecord ==
  /\ typ \in UNION {FlagRecordTypes(n) : n \in 2..MaxFields}
  /\ rec = [i \in 1..Len(typ) |-> Preset(typ[i].kind)]

InitEnv ==
  /\ InitOneField \/ InitRecord
  /\ args = <<>>
  /\ main = "env"

InitFlags ==
  /\ InitFlagOneField \/ InitFlagRecord
  /\ env = [k \in KeysOf(typ) |-> Unset]
  /\ args \in ArgLists(typ)
  /\ main = "flags"

Init ==
  /\ InitEnv \/ InitFlags
  /\ pre = rec
  /\ called = [fn |-> "", ptr |-> FALSE]
  /\ ret = NoError
  /\ lookups = <<>>
  /\ stderr = <<>>
  /\ registry = <<>>
  /\ parsed = 0
  /\ status = "start"

\* the outcomes of the stores through a float32 field, when the struct has one
UBChoicesFor(t) ==
  IF \E i \in 1..Len(t) : t[i].kind = "float32" THEN UBChoices
  ELSE {[own |-> "zero", spill |-> "zero"]}

Next ==
  \/ \E ptr \in BOOLEAN, showErrors \in BOOLEAN : Process(ptr, showErrors)
  \/ \E ptr \in BOOLEAN, showErrors \in BOOLEAN : LoadConfig(ptr, showErrors)
  \/ \E ptr \in BOOLEAN, ub \in UBChoicesFor(typ) : ProcessFlags(ptr, ub)

Spec == Init /\ [][Next]_vars

\* ------------------------------------------------------------ properties

ProcessReturned ==
  status = "returned" /\ called = [fn |-> "Process", ptr |-> TRUE]
LoadConfigReturned ==
  status = "returned" /\ called = [fn |-> "LoadConfig", ptr |-> TRUE]

\* the variable of key k is unset or set to the empty string
EnvEmpty(k) == ~env[k].set \/ env[k].v = <<>>

CoercionMsgs == {MsgInt, MsgUint, MsgFloat, MsgBool}

\* the field the returned error names (by field name, or by its environment
\* key when the message has no field name), 0 when there is none
FailedField ==
  IF ret.fmt = MsgNoEnvTag
  THEN CHOOSE i \in 1..Len(typ) : typ[i].Name = ret.args[1]
  ELSE IF ret.fmt \in {MsgRequired, MsgUnsupported}
  THEN CHOOSE i \in 1..Len(typ) : typ[i].Name = ret.args[2]
  ELSE IF ret.fmt \in CoercionMsgs
  THEN CHOOSE i \in 1..Len(typ) : typ[i].env = Tag(ret.args[1])
  ELSE 0

\* the call went past field i without an error
Passed(i) == ret.fmt = "" \/ FailedField > i

\* C1: after Process, a required field with an empty or unset variable and no
\* non-empty default makes the call fail: at that field with the "is required"
\* error naming the key and the field, unless an earlier field failed first;
\* with a non-empty text in the variable that error is not returned.
C1_RequiredValueMissing ==
  ProcessReturned =>
    \A i \in 1..Len(typ) :
      (typ[i].env.ok /\ typ[i].required.ok) =>
        LET k == typ[i].env.v
            missing == Errorf(MsgRequired, <<k, typ[i].Name>>)
        IN /\ (EnvEmpty(k) /\ TagGet(typ[i].default) = <<>>) =>
                /\ ret.fmt # ""
                /\ FailedField <= i
                /\ FailedField = i => ret = missing
           /\ ~EnvEmpty(k) => ret # missing

\* a two-field record whose first field is bound and whose second, required
\* with its variable unset, fails the call
C1_Witness ==
  /\ ProcessReturned
  /\ Len(typ) = 2
  /\ typ[2].env.ok /\ typ[2].required.ok /\ ~env[typ[2].env.v].set
  /\ ret = Errorf(MsgRequired, <<typ[2].env.v, typ[2].Name>>)
  /\ rec[1] # pre[1]

\* C2: after Process, a field with a non-empty default is never the subject of
\* the "is required" error; when the call went past it, it holds the coercion
\* of the default if its variable is empty or unset and of the environment
\* text otherwise; when the call failed at it, that text did not coerce.
C2_Default ==
  ProcessReturned =>
    \A i \in 1..Len(typ) :
      (typ[i].env.ok /\ TagGet(typ[i].default) # <<>>) =>
        LET k == typ[i].env.v
            def == TagGet(typ[i].default)
            used == IF EnvEmpty(k) THEN def ELSE env[k].v
            c == Coerce(typ[i].kind, used, pre[i])
        IN /\ ~(ret.fmt = MsgRequired /\ FailedField = i)
           /\ Passed(i) => c.fmt = "" /\ rec[i] = c.val
           /\ FailedField = i =>
                /\ c.fmt # ""
                /\ ret = Errorf(c.fmt, <<k, used>>)
                /\ rec[i] = pre[i]
           /\ (Passed(i) /\ EnvEmpty(k) /\ def = <<"1">>) =>
                /\ typ[i].kind \in SignedKinds \cup UnsignedKinds => rec[i] = 1
                /\ typ[i].kind = "bool" => rec[i] = TRUE
                /\ typ[i].kind = "string" => rec[i] = <<"1">>

\* a required int with default "1" and its variable unset is bound to 1
C2_Witness ==
  /\ ProcessReturned
  /\ ret = NoError
  /\ \E i \in 1..Len(typ) :
       /\ typ[i].kind = "int" /\ typ[i].required.ok
       /\ typ[i].default = Tag(<<"1">>)
       /\ ~env[typ[i].env.v].set
       /\ pre[i] = 7 /\ rec[i] = 1

\* --- canonical texts of values (strconv.Itoa, and %v of a float64)

DigitChar(d) ==
  CASE d = 0 -> "0" [] d = 1 -> "1" [] d = 2 -> "2" [] d = 3 -> "3"
    [] d = 4 -> "4" [] d = 5 -> "5" [] d = 6 -> "6" [] d = 7 -> "7"
    [] d = 8 -> "8" [] d = 9 -> "9"

RECURSIVE NatText(_)
NatText(n) ==
  IF n < 10 THEN <<DigitChar(n)>>
  ELSE Append(NatText(n \div 10), DigitChar(n % 10))

Itoa(v) == IF v < 0 THEN <<"-">> \o NatText(0 - v) ELSE NatText(v)

RECURSIVE PadLeft(_, _)
PadLeft(s, k) == IF Len(s) >= k THEN s ELSE PadLeft(<<"0">> \o s, k)

\* the text of the decimal f = <<n, k>>, n / 10^k
FormatFloat(f) ==
  LET mag == IF f[1] < 0 THEN 0 - f[1] ELSE f[1]
      whole == NatText(mag \div Pow10(f[2]))
      frac == IF f[2] = 0 THEN <<>>
              ELSE <<".">> \o PadLeft(NatText(mag % Pow10(f[2])), f[2])
  IN (IF f[1] < 0 THEN <<"-">> ELSE <<>>) \o whole \o frac

\* t is the text of a natural number: digits, no leading zero
CanonNat(t) == t # <<>> /\ AllDigits(t) /\ (Len(t) > 1 => t[1] # "0")

\* t is the text Itoa gives for some integer
CanonInt(t) ==
  \/ CanonNat(t)
  \/ Len(t) > 1 /\ t[1] = "-" /\ CanonNat(Tail(t)) /\ Tail(t) # <<"0">>

\* t is the text of a value of the integer kind: canonical and in its range
CanonOfKind(kind, t) ==
  LET mag == DigitsVal(IF t[1] = "-" THEN Tail(t) ELSE t)
      v == IF t[1] = "-" THEN 0 - mag ELSE mag
  IN /\ IF kind \in SignedKinds THEN CanonInt(t) ELSE CanonNat(t)
     /\ Width(kind) < 64 =>
          IF kind \in SignedKinds
          THEN v >= 0 - 2 ^ (Width(kind) - 1) /\ v < 2 ^ (Width(kind) - 1)
          ELSE v < 2 ^ Width(kind)

\* t is the text FormatFloat gives for some decimal
CanonFloat(t) ==
  LET body == IF t # <<>> /\ t[1] = "-" THEN Tail(t) ELSE t
      d == DotAt(body)
      whole == IF d = 0 THEN body ELSE SubSeq(body, 1, d - 1)
      frac == IF d = 0 THEN <<>> ELSE SubSeq(body, d + 1, Len(body))
  IN /\ CanonNat(whole)
     /\ AllDigits(frac)
     /\ d # 0 => frac # <<>> /\ frac[Len(frac)] # "0"
     /\ (t[1] = "-") => ~(whole = <<"0">> /\ frac = <<>>)

\* the round trip of field i whose variable holds the text t
RoundTrip(i, t) ==
  LET kind == typ[i].kind
  IN CASE kind \in SignedKinds \cup UnsignedKinds ->
            CanonOfKind(kind, t) =>
              FailedField # i /\ (Passed(i) => Itoa(rec[i]) = t)
       [] kind \in FloatKinds ->
            CanonFloat(t) =>
              FailedField # i /\ (Passed(i) => FormatFloat(rec[i]) = t)
       [] kind = "string" -> FailedField # i /\ (Passed(i) => rec[i] = t)
       [] kind = "bool" ->
            /\ t = <<"1">> => FailedField # i /\ (Passed(i) => rec[i] = TRUE)
            /\ t = <<"0">> => FailedField # i /\ (Passed(i) => rec[i] = FALSE)
            /\ t \notin {<<"0">>, <<"1">>} =>
                 /\ ~Passed(i)
                 /\ FailedField = i => ret.fmt = MsgBool
                 /\ rec[i] = pre[i]
       [] OTHER -> TRUE

\* C3 as stated: after Process, a field whose variable is set to the canonical
\* text of a value v of its kind is not where the call fails and holds v once
\* the call went past it; a bool field with a text other than "1" and "0"
\* stops the call with the bool coercion error and is not written.
C3_RoundTripAnyText ==
  ProcessReturned =>
    \A i \in 1..Len(typ) :
      (typ[i].env.ok /\ env[typ[i].env.v].set) =>
        RoundTrip(i, env[typ[i].env.v].v)

\* C3, amended: the same for a non-empty text, and for the empty text when
\* the field has neither a non-empty default nor a required tag.
C3_RoundTrip ==
  ProcessReturned =>
    \A i \in 1..Len(typ) :
      (/\ typ[i].env.ok
       /\ env[typ[i].env.v].set
       /\ \/ env[typ[i].env.v].v # <<>>
          \/ TagGet(typ[i].default) = <<>> /\ ~typ[i].required.ok) =>
        RoundTrip(i, env[typ[i].env.v].v)

\* an int field read back from the text "-1"
C3_Witness ==
  /\ ProcessReturned
  /\ Len(typ) = 1
  /\ typ[1].kind = "int"
  /\ typ[1].env.ok
  /\ env[typ[1].env.v] = Set(<<"-", "1">>)
  /\ ret = NoError
  /\ rec[1] = 0 - 1

\* strings.Repeat(s, 3), what customValue.Set stores
Repeat3(s) == s \o s \o s

\* the raw text of field i: the default in place of an empty or unset variable
RawOf(i) ==
  IF EnvEmpty(typ[i].env.v) /\ TagGet(typ[i].default) # <<>>
  THEN TagGet(typ[i].default)
  ELSE IF EnvEmpty(typ[i].env.v) THEN <<>> ELSE env[typ[i].env.v].v

\* C4: after Process, a field that points to a customValue, whose Set stores
\* its argument three times over, holds the raw text three times over once
\* the call went past it.
C4_ValueHook ==
  ProcessReturned =>
    \A i \in 1..Len(typ) :
      (typ[i].kind = "ptr" /\ typ[i].env.ok /\ Passed(i)) =>
        rec[i] = [v |-> Repeat3(RawOf(i))]

\* C5 as stated: after a binding from the environment (Process or the older
\* LoadConfig), a bool field is never where the call fails, and once the call
\* went past it, it holds false for an empty raw text and true for any other.
C5_BoolNeverFails ==
  (ProcessReturned \/ LoadConfigReturned) =>
    \A i \in 1..Len(typ) :
      (typ[i].kind = "bool" /\ typ[i].env.ok) =>
        /\ FailedField # i
        /\ Passed(i) => rec[i] = (RawOf(i) # <<>>)

\* C5, amended: after the older LoadConfig, a bool field is where the call
\* fails only when it is required and its raw text is empty, and once the call
\* went past it, it holds false for an empty raw text and true for any other;
\* after Process, a bool field whose raw text is neither "1" nor "0" stops the
\* call.
C5_LooseBoolInLoadConfig ==
  /\ LoadConfigReturned =>
       \A i \in 1..Len(typ) :
         (typ[i].kind = "bool" /\ typ[i].env.ok) =>
           /\ FailedField = i =>
                /\ typ[i].required.ok /\ RawOf(i) = <<>>
                /\ ret = Errorf(MsgRequired, <<typ[i].env.v, typ[i].Name>>)
           /\ ~(typ[i].required.ok /\ RawOf(i) = <<>>) => FailedField # i
           /\ Passed(i) => rec[i] = (RawOf(i) # <<>>)
  /\ ProcessReturned =>
       \A i \in 1..Len(typ) :
         (typ[i].kind = "bool" /\ typ[i].env.ok
            /\ RawOf(i) \notin {<<"0">>, <<"1">>}) =>
           /\ ~Passed(i)
           /\ FailedField = i => ret.fmt \in {MsgBool, MsgRequired}

\* the older LoadConfig binds a bool that held true to false from an unset
\* variable, without an error
C5_Witness ==
  /\ LoadConfigReturned
  /\ ret = NoError
  /\ \E i \in 1..Len(typ) :
       /\ typ[i].kind = "bool" /\ typ[i].env.ok
       /\ ~env[typ[i].env.v].set /\ ~typ[i].default.ok
       /\ pre[i] = TRUE /\ rec[i] = FALSE

\* C6: a call of Process or ProcessFlags with a target that is not a pointer
\* returns the "must be a pointer" error and changes no field, looks up no
\* variable, registers no flag and does not run flag.Parse.
C6_NotAPointer ==
  [][(called'.fn \in {"Process", "ProcessFlags"} /\ ~called'.ptr) =>
       /\ ret' = Errorf(MsgNotPtr, <<>>)
       /\ status' = "returned"
       /\ rec' = rec
       /\ lookups' = <<>>
       /\ registry' = registry
       /\ parsed' = parsed]_vars

\* ProcessFlags refused a target that is not a pointer, after a call that
\* registered flags
C6_Witness ==
  /\ called = [fn |-> "ProcessFlags", ptr |-> FALSE]
  /\ ret = Errorf(MsgNotPtr, <<>>)
  /\ registry # <<>>
  /\ parsed = 1

\* the field names of the model in lower case
LowerNames == << <<"f", "o", "o">>, <<"b", "a", "r">>, <<"b", "a", "z">>,
                 <<"q", "u", "x">> >>

\* C7: after Process, a field with no env tag makes the call fail, with the
\* "tag not found" error naming the field unless an earlier field failed
\* first, whatever the environment holds. After ProcessFlags the error is
\* never about a tag, every registered flag carries its field's flag tag, or
\* the field's name in lower case when it has no flag tag, and a call that
\* returns nil has registered every field.
C7_LookupKey ==
  /\ ProcessReturned =>
       \A i \in 1..Len(typ) :
         ~typ[i].env.ok =>
           /\ ret.fmt # ""
           /\ FailedField <= i
           /\ FailedField = i => ret = Errorf(MsgNoEnvTag, <<typ[i].Name>>)
  /\ called.fn = "ProcessFlags" =>
       /\ ret.fmt \in {"", MsgNotPtr, MsgUnsupported}
       /\ \A j \in 1..Len(registry) :
            registry[j].name =
              IF typ[registry[j].field].flag.ok
              THEN typ[registry[j].field].flag.v
              ELSE LowerNames[registry[j].field]
       /\ (called.ptr /\ status = "returned" /\ ret = NoError) =>
            \A i \in 1..Len(typ) : \E j \in 1..Len(registry) :
              registry[j].field = i

\* ProcessFlags registered a field with no flag tag and one with a flag tag
C7_Witness ==
  /\ called = [fn |-> "ProcessFlags", ptr |-> TRUE]
  /\ status = "returned" /\ ret = NoError
  /\ Len(typ) = 2
  /\ ~typ[1].flag.ok /\ typ[2].flag.ok
  /\ registry[1].name = <<"f", "o", "o">>
  /\ registry[2].name = <<"f">>

FlagsReturned ==
  status = "returned" /\ called = [fn |-> "ProcessFlags", ptr |-> TRUE]

\* the flag of field i is given on the command line
Supplied(i) == \E j \in 1..Len(args) : args[j].name = FlagName(typ[i])

\* the kinds README.md lists for the flag loader
FlagLoaderKinds == {"int64", "uint64", "float64", "string", "bool"}

\* the value of a default tag's text for a kind, when the text is one
DefaultOf(kind, text) ==
  CASE kind = "int64" -> Atoi(text)
    [] kind = "uint64" -> ParseUint(text)
    [] kind = "float64" -> ParseFloat(text)
    [] kind = "string" -> [ok |-> TRUE, val |-> text]
    [] kind = "bool" -> ParseBool(text)

\* C8 as stated: ProcessFlags never returns the "is required" error, and after
\* a call that returned nil a field of a listed kind whose flag is not on the
\* command line holds the value of its default tag when it has one, and the
\* zero value of its kind when it has none.
C8_FlagDefaultAnyKind ==
  /\ called.fn = "ProcessFlags" => ret.fmt # MsgRequired
  /\ (FlagsReturned /\ ret = NoError) =>
       \A i \in 1..Len(typ) :
         (typ[i].kind \in FlagLoaderKinds /\ ~Supplied(i)) =>
           LET d == DefaultOf(typ[i].kind, TagGet(typ[i].default))
           IN /\ TagGet(typ[i].default) = <<>> => rec[i] = Zero(typ[i].kind)
              /\ (TagGet(typ[i].default) # <<>> /\ d.ok) => rec[i] = d.val

\* flag.Parse stored through a float32 field whose 8 bytes reach field i
StoredOver(i) ==
  \E j \in 1..(i - 1) :
    typ[j].kind = "float32" /\ Supplied(j) /\ i \in Overlapped(typ, j)

\* C8, amended: ProcessFlags never returns the "is required" error, and after
\* a call that returned nil a field whose flag is not on the command line
\* holds, for int64, uint64, float64 and string, the value of its default tag
\* when the tag's text parses and the zero value otherwise, and for bool false
\* whatever its default tag; a field that begins within 8 bytes of a float32
\* field whose flag is on the command line is left out.
C8_FlagDefault ==
  /\ called.fn = "ProcessFlags" => ret.fmt # MsgRequired
  /\ (FlagsReturned /\ ret = NoError) =>
       \A i \in 1..Len(typ) :
         (typ[i].kind \in FlagLoaderKinds /\ ~Supplied(i) /\ ~StoredOver(i)) =>
           LET d == DefaultOf(typ[i].kind, TagGet(typ[i].default))
           IN IF typ[i].kind # "bool" /\ TagGet(typ[i].default) # <<>> /\ d.ok
              THEN rec[i] = d.val
              ELSE rec[i] = Zero(typ[i].kind)

\* a required int64 field with default "1" and no flag on the command line
\* is bound to 1, and the call returns nil
C8_Witness ==
  /\ FlagsReturned /\ ret = NoError
  /\ args = <<>>
  /\ typ[1].kind = "int64" /\ typ[1].required.ok
  /\ typ[1].default = Tag(<<"1">>)
  /\ pre[1] = 7 /\ rec[1] = 1

\* C9: a call of ProcessFlags that returns, on a record with a field of a kind
\* other than int64, uint64, float64, string and bool, returns the "is not
\* supported" error, naming that field or an earlier one of such a kind.
C9_UnsupportedKind ==
  FlagsReturned =>
    \A i \in 1..Len(typ) :
      typ[i].kind \notin FlagLoaderKinds =>
        /\ ret.fmt = MsgUnsupported
        /\ FailedField <= i
        /\ typ[FailedField].kind \notin FlagLoaderKinds

\* the values of the fields before field k, as Process binds them
BoundBefore(k) ==
  \A j \in 1..(k - 1) :
    LET c == Coerce(typ[j].kind, RawOf(j), pre[j])
    IN c.fmt = "" /\ rec[j] = c.val

\* C10: when Process returns an error about field k, every field before k
\* holds the value bound from its raw text (a field of a kind Process has no
\* case for holds what it held), field k and the fields after it hold what
\* they held before the call, and the lookups made are those of the fields up
\* to k, in order.
C10_FirstFailure ==
  (ProcessReturned /\ ret.fmt # "") =>
    LET k == FailedField
    IN /\ k \in 1..Len(typ)
       /\ BoundBefore(k)
       /\ \A j \in k..Len(typ) : rec[j] = pre[j]
       /\ Len(lookups) = IF typ[k].env.ok THEN k ELSE k - 1
       /\ \A j \in 1..Len(lookups) : lookups[j] = typ[j].env.v

\* the second of two fields failed: the first is bound, the second is not
C10_Witness ==
  /\ ProcessReturned
  /\ Len(typ) = 2
  /\ ret.fmt = MsgInt
  /\ FailedField = 2
  /\ typ[1].kind = "string" /\ rec[1] = <<"x">> /\ pre[1] = <<"p">>
  /\ rec[2] = pre[2]
  /\ Len(lookups) = 2

\* the value a field of the kind holds once bound from the text raw: what the
\* switch of Process assigns, and for a pointer to a customValue what its Set
\* stores
FromText(kind, raw) ==
  IF kind = "ptr" THEN [ok |-> TRUE, val |-> [v |-> Repeat3(raw)]]
  ELSE LET c == Coerce(kind, raw, Zero(kind))
       IN [ok |-> c.fmt = "", val |-> c.val]

\* the text of the last argument that names the flag of field i
SuppliedText(i) ==
  LET j == CHOOSE j \in 1..Len(args) :
             /\ args[j].name = FlagName(typ[i])
             /\ \A k \in (j + 1)..Len(args) : args[k].name # FlagName(typ[i])
  IN IF args[j].val.has THEN args[j].val.v ELSE <<"t", "r", "u", "e">>

\* the values a field of the kind may hold when its flag is not supplied: the
\* zero value, and the value of its default tag when the tag's text is one
Unsupplied(kind, default) ==
  LET k == IF kind = "float32" THEN "float64" ELSE kind
      d == DefaultOf(k, default)
  IN {Zero(kind)} \cup (IF default # <<>> /\ d.ok THEN {d.val} ELSE {})

\* C11: after Process returns nil, every field was looked up once, in order,
\* and holds the value bound from its raw text (the environment text, or the
\* default in place of an empty one), whatever its kind; after ProcessFlags
\* returns nil, every field was registered once, in order, and holds the value
\* of its flag's text when the flag is on the command line, and otherwise the
\* value of its default tag or the zero value of its kind.
C11_SuccessPostcondition ==
  /\ (ProcessReturned /\ ret = NoError) =>
       /\ lookups = [i \in 1..Len(typ) |-> typ[i].env.v]
       /\ \A i \in 1..Len(typ) :
            LET c == FromText(typ[i].kind, RawOf(i))
            IN c.ok /\ rec[i] = c.val
  /\ (FlagsReturned /\ ret = NoError) =>
       /\ Len(registry) >= Len(typ)
       /\ \A i \in 1..Len(typ) :
            registry[Len(registry) - Len(typ) + i].field = i
       /\ \A i \in 1..Len(typ) :
            LET rule == FlagRule(typ[i].kind)
            IN /\ rule # ""
               /\ IF Supplied(i)
                  THEN rec[i] = FlagSet(rule, SuppliedText(i)).val
                  ELSE rec[i] \in Unsupplied(typ[i].kind, TagGet(typ[i].default))

\* C11 without the kinds the loaders mishandle: the same, for records with no
\* pointer field (Process) and no float32 field (ProcessFlags)
C11_SupportedKindsOnly ==
  (\A i \in 1..Len(typ) : typ[i].kind \notin {"ptr", "float32"}) =>
    C11_SuccessPostcondition

\* the message of the conversion error of a numeric kind
NumericMsg(kind) ==
  CASE kind \in SignedKinds -> MsgInt
    [] kind \in UnsignedKinds -> MsgUint
    [] kind \in FloatKinds -> MsgFloat

\* field i has an env tag, no required tag, no non-empty default, and its
\* variable is empty or unset
NothingToBind(i) ==
  /\ typ[i].env.ok
  /\ ~typ[i].required.ok
  /\ TagGet(typ[i].default) = <<>>
  /\ EnvEmpty(typ[i].env.v)

\* C12: after Process, a numeric field that is not required, has no non-empty
\* default and whose variable is empty or unset makes the call fail: at that
\* field with the conversion error of its kind, carrying the key and the empty
\* text, the field holding what it held, unless an earlier field failed first;
\* a string field in the same situation is never where the call fails, and
\* holds the empty string once the call went past it.
C12_EmptyNumericFails ==
  ProcessReturned =>
    \A i \in 1..Len(typ) :
      NothingToBind(i) =>
        /\ typ[i].kind \in SignedKinds \cup UnsignedKinds \cup FloatKinds =>
             /\ ret.fmt # ""
             /\ FailedField <= i
             /\ FailedField = i =>
                  /\ ret = Errorf(NumericMsg(typ[i].kind), <<typ[i].env.v, <<>>>>)
                  /\ rec[i] = pre[i]
        /\ typ[i].kind = "string" =>
             /\ FailedField # i
             /\ Passed(i) => rec[i] = <<>>

\* a string field with its variable unset is bound to the empty string, and
\* the int field after it, its variable unset too, fails the call and keeps
\* the 7 it held
C12_Witness ==
  /\ ProcessReturned
  /\ Len(typ) = 2
  /\ typ[1].kind = "string" /\ typ[2].kind = "int"
  /\ NothingToBind(1) /\ NothingToBind(2)
  /\ ~env[typ[1].env.v].set /\ ~env[typ[2].env.v].set
  /\ pre[1] = <<"p">> /\ rec[1] = <<>>
  /\ ret = Errorf(MsgInt, <<typ[2].env.v, <<>>>>)
  /\ rec[2] = 7

\* C13: a call of ProcessFlags on a pointer runs flag.Parse at most once. It
\* adds to the flag set the flags of the first n fields, in declaration order,
\* after those that were there. When it runs flag.Parse, n is the number of
\* fields and no error is returned, and when flag.Parse then returns, every
\* argument named a flag of the set. When it returns the "is not supported"
\* error about field k, flag.Parse is not run and the flags of the k - 1
\* fields before it are in the set.
C13_ParseAfterRegistration ==
  [][(called'.fn = "ProcessFlags" /\ called'.ptr) =>
       LET n == Len(registry') - Len(registry)
       IN /\ parsed' \in {parsed, parsed + 1}
          /\ n \in 0..Len(typ)
          /\ SubSeq(registry', 1, Len(registry)) = registry
          /\ \A i \in 1..n :
               /\ registry'[Len(registry) + i].field = i
               /\ registry'[Len(registry) + i].name = FlagName(typ[i])
          /\ parsed' = parsed + 1 =>
               /\ n = Len(typ)
               /\ ret' = NoError
               /\ status' = "returned" =>
                    \A j \in 1..Len(args) :
                      args[j].name \in RegisteredNames(registry')
          /\ ret'.fmt = MsgUnsupported =>
               /\ parsed' = parsed
               /\ status' = "returned"
               /\ n = FailedField' - 1]_vars

\* the second field's kind has no case: the call returned the error without
\* running flag.Parse, and the first field's flag is in the flag set
C13_Witness ==
  /\ FlagsReturned
  /\ ret.fmt = MsgUnsupported
  /\ FailedField = 2
  /\ Len(registry) = 1
  /\ registry[1].name = FlagName(typ[1])
  /\ parsed = 0

\* the fields a call of ProcessFlags gets to: those before the first field of
\* a kind with no flag.XxxVar call
Reached == {i \in 1..Len(typ) : \A j \in 1..i : FlagRule(typ[j].kind) # ""}

\* a call of ProcessFlags made now gets to a field whose flag name is in the
\* flag set already, or is the name of an earlier field of the record
Redefines ==
  \E i \in Reached :
    \/ FlagName(typ[i]) \in RegisteredNames(registry)
    \/ \E j \in 1..(i - 1) : FlagName(typ[j]) = FlagName(typ[i])

\* C14: after any call of ProcessFlags no two flags of the flag set have the
\* same name; a call on a pointer that gets to a field whose name is already
\* registered, or is the name of an earlier field, panics instead of
\* returning, and a call panics for no other reason.
C14_NoDuplicateFlag ==
  [][called'.fn = "ProcessFlags" =>
       /\ \A i, j \in 1..Len(registry') :
            registry'[i].name = registry'[j].name => i = j
       /\ (called'.ptr /\ Redefines) => status' = "panicked"
       /\ status' = "panicked" => (called'.ptr /\ Redefines)]_vars

\* a call stopped at the second field with the "is not supported" error,
\* leaving the first field's flag in the flag set, and the next call panicked
\* on that flag
C14_Witness ==
  /\ status = "panicked"
  /\ called = [fn |-> "ProcessFlags", ptr |-> TRUE]
  /\ Len(typ) = 2
  /\ FlagRule(typ[1].kind) # "" /\ FlagRule(typ[2].kind) = ""
  /\ parsed = 0
  /\ Len(registry) = 1
  /\ registry[1].name = FlagName(typ[1])

====
